---- MODULE Spec2Model ----
(***************************************************************************)
(* Bessel functions of scilib (src/math/bessel.rs): the integer-order      *)
(* evaluator j as a step machine over its convergence loop, and the        *)
(* real-order entry points jf, y, i, k, hankel_first, hankel_second as a   *)
(* call-stack machine.                                                     *)
(*                                                                         *)
(* Numbers.  f64 values are modelled as exact rationals (numerator and     *)
(* denominator are arbitrary-precision integers, kept as sequences of      *)
(* limbs), extended by the non-finite values: a finite result of           *)
(* magnitude 2^1024 or more overflows.  Rounding of finite values is not   *)
(* modelled.  A Complex value is a pair of numerators over one             *)
(* denominator, or the single value NonFin that stands for every Complex   *)
(* with an infinite or NaN component.                                      *)
(***************************************************************************)
EXTENDS Integers, Sequences, FiniteSets, TLC

----------------------------------------------------------------------------
(* Arbitrary-precision naturals: little-endian limbs in base Base, no      *)
(* high zero limb; zero is the empty sequence.                             *)

Base == 100 * 100

Max(a, b) == IF a >= b THEN a ELSE b

Limb(a, i) == IF i <= Len(a) THEN a[i] ELSE 0

\* the limbs of a small natural
MNat(n) ==
    IF n = 0 THEN <<>>
    ELSE IF n < Base THEN <<n>>
    ELSE IF n < Base * Base THEN <<n % Base, n \div Base>>
    ELSE <<n % Base, (n \div Base) % Base, n \div (Base * Base)>>

\* a without its high zero limbs
MStrip(a) ==
    LET nz == {i \in 1..Len(a) : a[i] # 0}
    IN  IF nz = {} THEN <<>>
        ELSE SubSeq(a, 1, CHOOSE i \in nz : \A j \in nz : j <= i)

\* The carry chains below are split in halves, so that the depth of the
\* evaluation grows with the logarithm of the length.
RECURSIVE AddR(_, _, _, _, _)
\* limbs lo..hi of a + b + c and the carry out of them
AddR(a, b, lo, hi, c) ==
    IF lo = hi
    THEN LET s == Limb(a, lo) + Limb(b, lo) + c
         IN  [d |-> <<s % Base>>, c |-> s \div Base]
    ELSE LET mid == (lo + hi) \div 2
             l   == AddR(a, b, lo, mid, c)
             h   == AddR(a, b, mid + 1, hi, l.c)
         IN  [d |-> l.d \o h.d, c |-> h.c]

MAdd(a, b) ==
    LET n == Max(Len(a), Len(b))
    IN  IF n = 0 THEN <<>>
        ELSE LET r == AddR(a, b, 1, n, 0)
             IN  IF r.c = 0 THEN r.d ELSE r.d \o <<r.c>>

RECURSIVE SubR(_, _, _, _, _)
\* limbs lo..hi of a - b - c and the borrow out of them
SubR(a, b, lo, hi, c) ==
    IF lo = hi
    THEN LET s == Limb(a, lo) - Limb(b, lo) - c
         IN  [d |-> <<IF s < 0 THEN s + Base ELSE s>>,
              c |-> IF s < 0 THEN 1 ELSE 0]
    ELSE LET mid == (lo + hi) \div 2
             l   == SubR(a, b, lo, mid, c)
             h   == SubR(a, b, mid + 1, hi, l.c)
         IN  [d |-> l.d \o h.d, c |-> h.c]

\* a - b for a >= b
MSub(a, b) == IF a = <<>> THEN <<>> ELSE MStrip(SubR(a, b, 1, Len(a), 0).d)

\* -1, 0, 1 as a < b, a = b, a > b
MCmp(a, b) ==
    IF Len(a) < Len(b) THEN -1
    ELSE IF Len(a) > Len(b) THEN 1
    ELSE LET df == {i \in 1..Len(a) : a[i] # b[i]}
         IN  IF df = {} THEN 0
             ELSE LET m == CHOOSE i \in df : \A j \in df : j <= i
                  IN  IF a[m] < b[m] THEN -1 ELSE 1

RECURSIVE MulSR(_, _, _, _, _)
\* limbs lo..hi of a * d + c for one limb d, and the carry out of them
MulSR(a, d, lo, hi, c) ==
    IF lo = hi
    THEN LET s == a[lo] * d + c
         IN  [d |-> <<s % Base>>, c |-> s \div Base]
    ELSE LET mid == (lo + hi) \div 2
             l   == MulSR(a, d, lo, mid, c)
             h   == MulSR(a, d, mid + 1, hi, l.c)
         IN  [d |-> l.d \o h.d, c |-> h.c]

MMulS(a, d) ==
    IF a = <<>> \/ d = 0 THEN <<>>
    ELSE LET r == MulSR(a, d, 1, Len(a), 0)
         IN  IF r.c = 0 THEN r.d ELSE r.d \o <<r.c>>

\* a * Base^n
MShift(a, n) == IF a = <<>> THEN a ELSE [i \in 1..n |-> 0] \o a

----------------------------------------------------------------------------
(* The arithmetic above the limbs is one recursive evaluator, Num: the     *)
(* operators below name its operations, and the operations use each other  *)
(* by these names.                                                         *)

RECURSIVE Num(_, _)

\* a times the limbs lo..hi of b, split in halves
MMulR(a, b, lo, hi) == Num("MMulR", <<a, b, lo, hi>>)

MMul(a, b) == Num("MMul", <<a, b>>)

MPow(a, e) == Num("MPow", <<a, e>>)

(* Signed integers: a sign and a magnitude; zero is never negative.        *)

IMk(neg, mag) == [neg |-> neg /\ mag # <<>>, mag |-> mag]

IZero == IMk(FALSE, <<>>)

IOne == IMk(FALSE, <<1>>)

INeg(a) == IMk(~a.neg, a.mag)

IAdd(a, b) == Num("IAdd", <<a, b>>)

ISub(a, b) == IAdd(a, INeg(b))

IMul(a, b) == IMk(a.neg # b.neg, MMul(a.mag, b.mag))

\* a times the natural m
IMulM(a, m) == IMk(a.neg, MMul(a.mag, m))

\* -1, 0, 1 as a < b, a = b, a > b
ICmp(a, b) ==
    IF a.neg /\ ~b.neg THEN -1
    ELSE IF ~a.neg /\ b.neg THEN 1
    ELSE IF a.neg THEN MCmp(b.mag, a.mag)
    ELSE MCmp(a.mag, b.mag)

(* The 32-bit integers of the program (i32) are TLC's own integers.        *)

MaxI32 == 2147483647

MinI32 == -MaxI32 - 1

\* the i32 n as a signed integer of arbitrary precision
IInt(n) ==
    IF n = MinI32 THEN IMk(TRUE, MAdd(MNat(MaxI32), <<1>>))
    ELSE IF n < 0 THEN IMk(TRUE, MNat(-n))
    ELSE IMk(FALSE, MNat(n))

(* f64: a finite rational num / den (den > 0), an infinity (the sign is    *)
(* that of num) or NaN.  A finite result of magnitude 2^1024 or more is    *)
(* an infinity.                                                            *)

F64Limit == MPow(<<2>>, 1024)

\* |mag / den| >= 2^1024, decided on the lengths where they settle it
Overflows(mag, den) == Num("Overflows", <<mag, den>>)

RNaN == [kind |-> "nan", num |-> IZero, den |-> <<1>>]

RInf(neg) == [kind |-> "inf", num |-> IMk(neg, <<1>>), den |-> <<1>>]

RFin(num, den) ==
    IF Overflows(num.mag, den) THEN RInf(num.neg)
    ELSE [kind |-> "fin", num |-> num, den |-> den]

\* an i32 as f64
RInt(n) == [kind |-> "fin", num |-> IInt(n), den |-> <<1>>]

RIsZero(a) == a.kind = "fin" /\ a.num = IZero

RMul(a, b) == Num("RMul", <<a, b>>)

\* a / b in f64
RDiv(a, b) == Num("RDiv", <<a, b>>)

(* Complex (math/complex.rs): re / den + i im / den, or NonFin, which      *)
(* stands for every value with an infinite or NaN component.               *)

NonFin == [kind |-> "nonfin", re |-> IZero, im |-> IZero, den |-> <<1>>]

CFin(re, im, den) ==
    IF Overflows(re.mag, den) \/ Overflows(im.mag, den) THEN NonFin
    ELSE [kind |-> "fin", re |-> re, im |-> im, den |-> den]

\* Complex::from(a, b) of two i32
CInt(a, b) == [kind |-> "fin", re |-> IInt(a), im |-> IInt(b), den |-> <<1>>]

\* Complex::default()
CZero == CInt(0, 0)

COne == CInt(1, 0)

IsFin(c) == c.kind = "fin"

CIsZero(c) == IsFin(c) /\ c.re = IZero /\ c.im = IZero

CNeg(a) == IF IsFin(a) THEN [a EXCEPT !.re = INeg(a.re), !.im = INeg(a.im)]
           ELSE NonFin

\* Add for Complex
CAdd(a, b) == Num("CAdd", <<a, b>>)

\* Sub for Complex
CSub(a, b) == CAdd(a, CNeg(b))

\* Mul<Complex> for f64: each component of c times the real r
RMulC(r, c) == Num("RMulC", <<r, c>>)

\* Div<f64> for Complex: each component of c divided by the real r
CDivR(c, r) == Num("CDivR", <<c, r>>)

\* Mul for Complex
CMul(a, b) == Num("CMul", <<a, b>>)

\* Div for Complex: a times the conjugate of b over |b|^2; a zero or
\* non-finite divisor gives a non-finite quotient
CDiv(a, b) == Num("CDiv", <<a, b>>)

\* c.modulus() < e for a finite positive real e, decided on the squares;
\* no comparison with a NaN or an infinite modulus is true
ModulusLt(c, e) == Num("ModulusLt", <<c, e>>)

\* the same value (NonFin is one value here)
CEq(a, b) == Num("CEq", <<a, b>>)

\* |c| compared with 1: -1, 0, 1
UnitCmp(c) == Num("UnitCmp", <<c>>)

\* c^m for a natural m, by squaring
CPowExact(c, m) == Num("CPowExact", <<c, m>>)

\* An exponent of 2^30 and more in magnitude (an order next to the ends of
\* i32) is not multiplied out: the power of a value of modulus other than 1
\* underflows to zero or overflows, and the powers of 1, -1, i and -i repeat
\* with period 4.  (No other value of modulus 1 is an argument here.)
HugeExp == MaxI32 \div 2

CPowLimit(c, m) == Num("CPowLimit", <<c, m>>)

\* Complex::powi
CPowI(c, m) == Num("CPowI", <<c, m>>)

Num(op, p) ==
    LET a == p[1]
        b == p[2]
    IN  CASE op = "MMulR" ->
               IF p[3] = p[4] THEN MMulS(a, b[p[3]])
               ELSE LET mid == (p[3] + p[4]) \div 2
                    IN  MAdd(MMulR(a, b, p[3], mid),
                             MShift(MMulR(a, b, mid + 1, p[4]), mid + 1 - p[3]))
          [] op = "MMul" ->
               IF a = <<>> \/ b = <<>> THEN <<>>
               ELSE IF Len(b) > Len(a) THEN MMulR(b, a, 1, Len(a))
               ELSE MMulR(a, b, 1, Len(b))
          [] op = "Overflows" ->
               /\ Len(a) >= Len(b) + Len(F64Limit) - 1
               /\ MCmp(a, MMul(F64Limit, b)) >= 0
          [] op = "IAdd" ->
               IF a.neg = b.neg THEN IMk(a.neg, MAdd(a.mag, b.mag))
               ELSE LET c == MCmp(a.mag, b.mag)
                    IN  IF c = 0 THEN IZero
                        ELSE IF c > 0 THEN IMk(a.neg, MSub(a.mag, b.mag))
                        ELSE IMk(b.neg, MSub(b.mag, a.mag))
          [] op = "CAdd" ->
               IF ~IsFin(a) \/ ~IsFin(b) THEN NonFin
               ELSE IF a.den = b.den
                    THEN CFin(IAdd(a.re, b.re), IAdd(a.im, b.im), a.den)
               ELSE CFin(IAdd(IMulM(a.re, b.den), IMulM(b.re, a.den)),
                         IAdd(IMulM(a.im, b.den), IMulM(b.im, a.den)),
                         MMul(a.den, b.den))
          [] op = "CMul" ->
               IF ~IsFin(a) \/ ~IsFin(b) THEN NonFin
               ELSE CFin(ISub(IMul(a.re, b.re), IMul(a.im, b.im)),
                         IAdd(IMul(a.re, b.im), IMul(a.im, b.re)),
                         MMul(a.den, b.den))
          [] op = "CDiv" ->
               IF ~IsFin(a) \/ ~IsFin(b) \/ CIsZero(b) THEN NonFin
               ELSE LET n2 == IAdd(IMul(b.re, b.re), IMul(b.im, b.im))
                        pr == IAdd(IMul(a.re, b.re), IMul(a.im, b.im))
                        pi == ISub(IMul(a.im, b.re), IMul(a.re, b.im))
                    IN  IF a.den = b.den THEN CFin(pr, pi, n2.mag)
                        ELSE CFin(IMulM(pr, b.den), IMulM(pi, b.den),
                                  MMul(n2.mag, a.den))
          [] op = "RMulC" ->
               IF a.kind # "fin" \/ ~IsFin(b) THEN NonFin
               ELSE CFin(IMul(a.num, b.re), IMul(a.num, b.im),
                         MMul(a.den, b.den))
          [] op = "CDivR" ->
               IF ~IsFin(a) \/ b.kind = "nan" \/ RIsZero(b) THEN NonFin
               ELSE IF b.kind = "inf" THEN CZero
               ELSE CFin(IMk(a.re.neg # b.num.neg, MMul(a.re.mag, b.den)),
                         IMk(a.im.neg # b.num.neg, MMul(a.im.mag, b.den)),
                         MMul(a.den, b.num.mag))
          [] op = "RMul" ->
               IF a.kind = "nan" \/ b.kind = "nan" THEN RNaN
               ELSE IF a.kind = "inf" \/ b.kind = "inf"
                    THEN (IF RIsZero(a) \/ RIsZero(b) THEN RNaN
                          ELSE RInf(a.num.neg # b.num.neg))
               ELSE RFin(IMul(a.num, b.num), MMul(a.den, b.den))
          [] op = "RDiv" ->
               IF a.kind # "fin" \/ b.kind = "nan" THEN RNaN
               ELSE IF b.kind = "inf" THEN RInt(0)
               ELSE IF RIsZero(b)
                    THEN (IF RIsZero(a) THEN RNaN ELSE RInf(a.num.neg))
               ELSE RFin(IMk(a.num.neg # b.num.neg, MMul(a.num.mag, b.den)),
                         MMul(a.den, b.num.mag))
          [] op = "ModulusLt" ->
               /\ IsFin(a)
               /\ LET m2 == MAdd(MMul(a.re.mag, a.re.mag),
                                 MMul(a.im.mag, a.im.mag))
                  IN  MCmp(MMul(m2, MMul(b.den, b.den)),
                           MMul(MMul(a.den, a.den),
                                MMul(b.num.mag, b.num.mag))) < 0
          [] op = "CEq" ->
               /\ a.kind = b.kind
               /\ IsFin(a) => /\ IMulM(a.re, b.den) = IMulM(b.re, a.den)
                              /\ IMulM(a.im, b.den) = IMulM(b.im, a.den)
          [] op = "UnitCmp" ->
               MCmp(MAdd(MMul(a.re.mag, a.re.mag), MMul(a.im.mag, a.im.mag)),
                    MMul(a.den, a.den))
          [] op = "CPowExact" ->
               IF b = 0 THEN COne
               ELSE LET h == CPowExact(a, b \div 2)
                        s == CMul(h, h)
                    IN  IF b % 2 = 1 THEN CMul(s, a) ELSE s
          [] op = "CPowLimit" ->
               LET u == UnitCmp(a)
               IN  IF u = 0
                   THEN (IF CEq(CPowExact(a, 4), COne)
                         THEN CPowExact(a, b % 4)
                         ELSE NonFin)
                   ELSE IF (u < 0) = (b > 0) THEN CZero
                   ELSE NonFin
          [] op = "CPowI" ->
               IF ~IsFin(a) THEN NonFin
               ELSE IF b >= 0 /\ b <= HugeExp THEN CPowExact(a, b)
               ELSE IF b > HugeExp \/ b < -HugeExp THEN CPowLimit(a, b)
               ELSE CDiv(COne, CPowExact(a, -b))
          [] op = "MPow" ->
               IF b = 0 THEN <<1>>
               ELSE LET h == MPow(a, b \div 2)
                        s == MMul(h, h)
                    IN  IF b % 2 = 1 THEN MMul(s, a) ELSE s

----------------------------------------------------------------------------
(* Bounds of the model.                                                    *)

\* real arguments 0 .. MaxArg
MaxArg == 3

\* integer orders -MaxOrder .. MaxOrder
MaxOrder == 3

\* iterations of a convergence loop that are followed
MaxIter == 16

\* frames the call stack holds
MaxStack == 6

----------------------------------------------------------------------------
(* Constants and helpers of math/bessel.rs and math/basic.rs.              *)

\* const PRECISION_CONVERGENCE: f64 = 1.0e-8
PRECISION_CONVERGENCE == RFin(IOne, MNat(100000000))

RECURSIVE MProd(_, _)
\* lo * (lo + 1) * ... * hi
MProd(lo, hi) ==
    IF lo > hi THEN <<1>>
    ELSE IF lo = hi THEN MNat(lo)
    ELSE LET mid == (lo + hi) \div 2
         IN  MMul(MProd(lo, mid), MProd(mid + 1, hi))

\* basic::factorial(n as usize) as f64 for n >= 0: 171! and more are
\* beyond f64
FactorialF64(n) ==
    IF n > 170 THEN RInf(FALSE) ELSE RFin(IMk(FALSE, MProd(2, n)), <<1>>)

\* (-1.0_f64).powi(m)
PowNeg1(m) == IF m % 2 = 0 THEN RInt(1) ELSE RInt(-1)

\* a + b in i32, wrapped on overflow (a release build)
WrapAdd(a, b) ==
    IF a > 0 /\ b > MaxI32 - a THEN (a + MinI32) + (b + MinI32)
    ELSE IF a < 0 /\ b < MinI32 - a THEN (a - MinI32) + (b - MinI32)
    ELSE a + b

AddOverflows(a, b) ==
    \/ a > 0 /\ b > MaxI32 - a
    \/ a < 0 /\ b < MinI32 - a

\* std::f64::consts::FRAC_PI_2, as 355 / 226
FRAC_PI_2 == RFin(IInt(355), MNat(226))

\* Complex::i()
CI == CInt(0, 1)

----------------------------------------------------------------------------
(* Real orders (the f64 parameter n of jf, y, i, k and the Hankel          *)
(* functions): w + f / 1000 for an integer w of arbitrary precision and    *)
(* 0 <= f < 1000.                                                          *)

Ord(w, f) == [w |-> w, f |-> f]

OrdZero == Ord(IZero, 0)

\* the i32 n as an order
OrdInt(n) == Ord(IInt(n), 0)

\* -n
OrdNeg(o) ==
    IF o.f = 0 THEN Ord(INeg(o.w), 0)
    ELSE Ord(ISub(INeg(o.w), IOne), 1000 - o.f)

\* n.fract() == 0.0
IsWhole(o) == o.f = 0

\* const DISTANCE_Y_LIM: f64 = 0.001, in thousandths
DISTANCE_Y_LIM == 1

\* from 2^44 on, neighbouring f64 values are 0.0039 and more apart: a sum
\* with 0.001 rounds back to the value itself
F64Whole == MPow(<<2>>, 44)

\* n + DISTANCE_Y_LIM for a whole n
OrdPlus(o) ==
    IF MCmp(o.w.mag, F64Whole) >= 0 THEN o ELSE Ord(o.w, DISTANCE_Y_LIM)

\* n - DISTANCE_Y_LIM for a whole n
OrdMinus(o) ==
    IF MCmp(o.w.mag, F64Whole) >= 0 THEN o
    ELSE Ord(ISub(o.w, IOne), 1000 - DISTANCE_Y_LIM)

\* n + 1.0, the argument of basic::gamma
GammaArg(o) == Ord(IAdd(o.w, IOne), o.f)

\* a signed integer within i32 as an i32
IntOf(a) ==
    LET v == Limb(a.mag, 1) + Base * Limb(a.mag, 2)
                 + Base * Base * Limb(a.mag, 3)
    IN  IF a.neg THEN -v ELSE v

\* n as i32 for a whole n: the cast saturates
ToI32(o) ==
    IF ICmp(o.w, IInt(MaxI32)) >= 0 THEN MaxI32
    ELSE IF ICmp(o.w, IInt(MinI32)) <= 0 THEN MinI32
    ELSE IntOf(o.w)

----------------------------------------------------------------------------
(* State.  A session evaluates the calls of todo one after the other, all  *)
(* on the argument x; stack is the call stack (the running call last).     *)

VARIABLES
    x,          \* the Complex argument of the session's calls
    todo,       \* calls still to make: [fn, n, ord]
    stack,      \* activation records, see Frame
    results,    \* calls that returned to the session: [fn, n, ord, val, fr]
    status,     \* "run", or how the session died: "panic", "hang", "overflow"
    memo,       \* values of the real-order series and of cos and sin, once drawn
    gammaArgs   \* the arguments basic::gamma was called with

vars == <<x, todo, stack, results, status, memo, gammaArgs>>

\* a call of fn; an integer order is n, a real order is ord
Call(fn, n, ord) == [fn |-> fn, n |-> n, ord |-> ord]

\* the activation record of a call c: the locals of j (np .. res), the
\* loop indices whose term was added (added), the values two callees
\* returned (a, b) and the calls made so far (kids)
Frame(c) ==
    [fn |-> c.fn, n |-> c.n, ord |-> c.ord, pc |-> "call",
     np |-> 0, x2 |-> CZero, k |-> 0, d1 |-> RInt(1), d2 |-> RInt(1),
     sg |-> RInt(1), term |-> CZero, res |-> CZero, added |-> <<>>,
     a |-> CZero, b |-> CZero, kids |-> <<>>]

Top == stack[Len(stack)]

Running(fn, pc) ==
    /\ status = "run"
    /\ stack # <<>>
    /\ Top.fn = fn
    /\ Top.pc = pc

SetTop(f) == [stack EXCEPT ![Len(stack)] = f]

\* the running call returns v from frame f: to the caller's a or b, or to
\* the session
Return(f, v) ==
    IF Len(stack) = 1
    THEN /\ stack' = <<>>
         /\ results' = Append(results,
                [fn |-> f.fn, n |-> f.n, ord |-> f.ord, val |-> v, fr |-> f])
    ELSE LET c == stack[Len(stack) - 1]
             d == IF c.pc = "wait_a"
                  THEN [c EXCEPT !.a = v, !.pc = "got_a"]
                  ELSE [c EXCEPT !.b = v, !.pc = "got_b"]
         IN  /\ stack' = Append(SubSeq(stack, 1, Len(stack) - 2), d)
             /\ results' = results

----------------------------------------------------------------------------
(* j(x, n), lines 140-178.                                                 *)

\* lines 142-150: the locals before the loop
JSetup(f, xx) ==
    LET np == IF f.n < 0 THEN -f.n ELSE f.n
        x2 == CDivR(xx, RInt(2))
        d2 == FactorialF64(np)
    IN  [f EXCEPT !.np = np, !.x2 = x2, !.k = 0, !.d1 = RInt(1), !.d2 = d2,
                  !.sg = RInt(1), !.term = CDivR(CPowI(x2, np), d2),
                  !.res = CZero]

\* line 153: term.modulus() < PRECISION_CONVERGENCE
FirstTermSmall(f) == ModulusLt(f.term, PRECISION_CONVERGENCE)

\* a stop test on the term alone
StopTestAbsolute(f) == ModulusLt(f.term, PRECISION_CONVERGENCE)

\* line 162: (term / res).modulus().abs() < PRECISION_CONVERGENCE
StopTest(f) == ModulusLt(CDiv(f.term, f.res), PRECISION_CONVERGENCE)

\* line 159: res += term
JAdd(f) ==
    [f EXCEPT !.res = CAdd(f.res, f.term), !.added = Append(f.added, f.k),
              !.pc = "test"]

\* lines 166-170: the next term
JNext(f) ==
    LET k  == WrapAdd(f.k, 1)
        sg == RMul(f.sg, RInt(-1))
        d1 == RMul(f.d1, RInt(k))
        d2 == RMul(f.d2, RInt(WrapAdd(f.np, k)))
        e  == WrapAdd(f.np, WrapAdd(k, k))
    IN  [f EXCEPT !.k = k, !.sg = sg, !.d1 = d1, !.d2 = d2,
                  !.term = CDivR(RMulC(sg, CPowI(f.x2, e)), RMul(d1, d2)),
                  !.pc = "add"]

\* the sum without the sign of a negative order
JResultUnsigned(f) == f.res

\* lines 173-177: the sign of a negative order
JResult(f) == IF f.n < 0 THEN RMulC(PowNeg1(f.np), f.res) ELSE f.res

\* an i32 sum of lines 166-170 overflows
NextOverflows(f) ==
    \/ AddOverflows(f.k, 1)
    \/ AddOverflows(f.np, f.k + 1)
    \/ AddOverflows(f.k + 1, f.k + 1)
    \/ AddOverflows(f.np, 2 * (f.k + 1))

\* line 142 at i32::MIN in a debug build: n.abs() panics
JAbsPanic ==
    /\ Running("j", "call")
    /\ Top.n = MinI32
    /\ status' = "panic"
    /\ UNCHANGED <<x, todo, stack, results, memo, gammaArgs>>

\* lines 142-146 at i32::MIN in a release build: n.abs() is i32::MIN, and
\* np as usize is 2^64 - 2^31: basic::factorial does not come back from
\* that many factors
JAbsWrap ==
    /\ Running("j", "call")
    /\ Top.n = MinI32
    /\ stack' = SetTop([Top EXCEPT !.np = MinI32, !.pc = "factorial"])
    /\ status' = "hang"
    /\ UNCHANGED <<x, todo, results, memo, gammaArgs>>

\* lines 142-155: the first term is below the precision, j returns res
JEarlyExit ==
    /\ Running("j", "call")
    /\ Top.n # MinI32
    /\ LET f == JSetup(Top, x)
       IN  /\ FirstTermSmall(f)
           /\ Return(f, f.res)
    /\ UNCHANGED <<x, todo, status, memo, gammaArgs>>

\* lines 142-158: into the loop
JEnterLoop ==
    /\ Running("j", "call")
    /\ Top.n # MinI32
    /\ LET f == JSetup(Top, x)
       IN  /\ ~FirstTermSmall(f)
           /\ stack' = SetTop([f EXCEPT !.pc = "add"])
    /\ UNCHANGED <<x, todo, results, status, memo, gammaArgs>>

\* line 159
JAccumulate ==
    /\ Running("j", "add")
    /\ stack' = SetTop(JAdd(Top))
    /\ UNCHANGED <<x, todo, results, status, memo, gammaArgs>>

\* lines 162-164: break 'convergence
JBreak ==
    /\ Running("j", "test")
    /\ StopTest(Top)
    /\ stack' = SetTop([Top EXCEPT !.pc = "exit"])
    /\ UNCHANGED <<x, todo, results, status, memo, gammaArgs>>

\* lines 162-170: the test fails, the next term is computed (an i32 sum
\* that overflows wraps in a release build)
JAdvance ==
    /\ Running("j", "test")
    /\ ~StopTest(Top)
    /\ Top.k < MaxIter
    /\ stack' = SetTop(JNext(Top))
    /\ UNCHANGED <<x, todo, results, status, memo, gammaArgs>>

\* lines 166-170 in a debug build: an i32 sum that overflows panics
JAdvancePanic ==
    /\ Running("j", "test")
    /\ ~StopTest(Top)
    /\ Top.k < MaxIter
    /\ NextOverflows(Top)
    /\ status' = "panic"
    /\ UNCHANGED <<x, todo, stack, results, memo, gammaArgs>>

\* lines 158-171 with res infinite or NaN: every later sum and quotient is
\* NaN and no stop test passes; the loop does not end
JDiverge ==
    /\ Running("j", "test")
    /\ ~IsFin(Top.res)
    /\ Top.k = MaxIter
    /\ status' = "hang"
    /\ UNCHANGED <<x, todo, stack, results, memo, gammaArgs>>

\* lines 173-177
JReturn ==
    /\ Running("j", "exit")
    /\ Return(Top, JResult(Top))
    /\ UNCHANGED <<x, todo, status, memo, gammaArgs>>

JStep ==
    \/ JAbsPanic
    \/ JAbsWrap
    \/ JEarlyExit
    \/ JEnterLoop
    \/ JAccumulate
    \/ JBreak
    \/ JAdvance
    \/ JAdvancePanic
    \/ JDiverge
    \/ JReturn

----------------------------------------------------------------------------
(* Calls among the functions.                                              *)

\* the running call calls c and waits for its value at pc; the frame of c
\* needs room on the stack
PushCall(pc, c) ==
    IF Len(stack) < MaxStack
    THEN /\ stack' = Append(SetTop([Top EXCEPT !.pc = pc,
                                               !.kids = Append(@, c)]),
                            Frame(c))
         /\ status' = status
    ELSE /\ stack' = stack
         /\ status' = "overflow"

(* The series of jf and i at an order with a fraction, and cos and sin,    *)
(* are not computed here: the value is drawn from a few values when the    *)
(* session first needs it, and is the same whenever it is needed again.    *)

SeriesValues == {CInt(2, 0), CInt(1, 1)}

\* cos(n * PI) and sin(n * PI) of an order with a fraction: sin is not zero
TrigValues ==
    {[cos |-> RInt(0), sin |-> RInt(1)],
     [cos |-> RFin(IInt(3), MNat(5)), sin |-> RFin(IInt(-4), MNat(5))]}

Draw(key, S) == IF key \in DOMAIN memo THEN {memo[key]} ELSE S

Remember(key, v) == IF key \in DOMAIN memo THEN memo ELSE (key :> v) @@ memo

----------------------------------------------------------------------------
(* jf(x, n), lines 215-255.                                                *)

\* lines 220-222: return j(x, n as i32)
JfDelegate ==
    /\ Running("jf", "call")
    /\ IsWhole(Top.ord)
    /\ PushCall("wait_a", Call("j", ToI32(Top.ord), OrdZero))
    /\ UNCHANGED <<x, todo, results, memo, gammaArgs>>

JfDelegateReturn ==
    /\ Running("jf", "got_a")
    /\ Return(Top, Top.a)
    /\ UNCHANGED <<x, todo, status, memo, gammaArgs>>

\* lines 224-254: the series with gamma(n + 1.0)
JfSeries ==
    /\ Running("jf", "call")
    /\ ~IsWhole(Top.ord)
    /\ gammaArgs' = gammaArgs \cup {GammaArg(Top.ord)}
    /\ \E v \in Draw(<<"jf", Top.ord>>, SeriesValues) :
          /\ memo' = Remember(<<"jf", Top.ord>>, v)
          /\ Return(Top, v)
    /\ UNCHANGED <<x, todo, status>>

(* i(x, n), lines 328-362: the series with gamma(n + 1.0), at every order. *)

ISeries ==
    /\ Running("i", "call")
    /\ gammaArgs' = gammaArgs \cup {GammaArg(Top.ord)}
    /\ \E v \in Draw(<<"i", Top.ord>>, SeriesValues) :
          /\ memo' = Remember(<<"i", Top.ord>>, v)
          /\ Return(Top, v)
    /\ UNCHANGED <<x, todo, status>>

----------------------------------------------------------------------------
(* y(x, n), lines 296-307.                                                 *)

\* line 303: (a + b) / 2.0
LimitValue(a, b) == CDivR(CAdd(a, b), RInt(2))

\* line 305: (cos * jf(x, n) - jf(x, -n)) / sin
YValue(t, a, b) == CDivR(CSub(RMulC(t.cos, a), b), t.sin)

\* lines 302-303: y(x, n + DISTANCE_Y_LIM)
YLimitFirst ==
    /\ Running("y", "call")
    /\ IsWhole(Top.ord)
    /\ PushCall("wait_a", Call("y", 0, OrdPlus(Top.ord)))
    /\ UNCHANGED <<x, todo, results, memo, gammaArgs>>

\* line 303: y(x, n - DISTANCE_Y_LIM)
YLimitSecond ==
    /\ Running("y", "got_a")
    /\ IsWhole(Top.ord)
    /\ PushCall("wait_b", Call("y", 0, OrdMinus(Top.ord)))
    /\ UNCHANGED <<x, todo, results, memo, gammaArgs>>

YLimitReturn ==
    /\ Running("y", "got_b")
    /\ IsWhole(Top.ord)
    /\ Return(Top, LimitValue(Top.a, Top.b))
    /\ UNCHANGED <<x, todo, status, memo, gammaArgs>>

\* line 305: jf(x, n)
YDirectFirst ==
    /\ Running("y", "call")
    /\ ~IsWhole(Top.ord)
    /\ PushCall("wait_a", Call("jf", 0, Top.ord))
    /\ UNCHANGED <<x, todo, results, memo, gammaArgs>>

\* line 305: jf(x, -n)
YDirectSecond ==
    /\ Running("y", "got_a")
    /\ ~IsWhole(Top.ord)
    /\ PushCall("wait_b", Call("jf", 0, OrdNeg(Top.ord)))
    /\ UNCHANGED <<x, todo, results, memo, gammaArgs>>

YDirectReturn ==
    /\ Running("y", "got_b")
    /\ ~IsWhole(Top.ord)
    /\ \E t \in Draw(<<"trig", Top.ord>>, TrigValues) :
          /\ memo' = Remember(<<"trig", Top.ord>>, t)
          /\ Return(Top, YValue(t, Top.a, Top.b))
    /\ UNCHANGED <<x, todo, status, gammaArgs>>

YStep ==
    \/ YLimitFirst
    \/ YLimitSecond
    \/ YLimitReturn
    \/ YDirectFirst
    \/ YDirectSecond
    \/ YDirectReturn

----------------------------------------------------------------------------
(* k(x, n), lines 384-395.                                                 *)

\* line 393: (FRAC_PI_2 / sin) * (i(x, -n) - i(x, n))
KValue(t, a, b) == RMulC(RDiv(FRAC_PI_2, t.sin), CSub(a, b))

\* lines 390-391: k(x, n + DISTANCE_Y_LIM)
KLimitFirst ==
    /\ Running("k", "call")
    /\ IsWhole(Top.ord)
    /\ PushCall("wait_a", Call("k", 0, OrdPlus(Top.ord)))
    /\ UNCHANGED <<x, todo, results, memo, gammaArgs>>

\* line 391: k(x, n - DISTANCE_Y_LIM)
KLimitSecond ==
    /\ Running("k", "got_a")
    /\ IsWhole(Top.ord)
    /\ PushCall("wait_b", Call("k", 0, OrdMinus(Top.ord)))
    /\ UNCHANGED <<x, todo, results, memo, gammaArgs>>

KLimitReturn ==
    /\ Running("k", "got_b")
    /\ IsWhole(Top.ord)
    /\ Return(Top, LimitValue(Top.a, Top.b))
    /\ UNCHANGED <<x, todo, status, memo, gammaArgs>>

\* line 393: i(x, -n)
KDirectFirst ==
    /\ Running("k", "call")
    /\ ~IsWhole(Top.ord)
    /\ PushCall("wait_a", Call("i", 0, OrdNeg(Top.ord)))
    /\ UNCHANGED <<x, todo, results, memo, gammaArgs>>

\* line 393: i(x, n)
KDirectSecond ==
    /\ Running("k", "got_a")
    /\ ~IsWhole(Top.ord)
    /\ PushCall("wait_b", Call("i", 0, Top.ord))
    /\ UNCHANGED <<x, todo, results, memo, gammaArgs>>

KDirectReturn ==
    /\ Running("k", "got_b")
    /\ ~IsWhole(Top.ord)
    /\ \E t \in Draw(<<"trig", Top.ord>>, TrigValues) :
          /\ memo' = Remember(<<"trig", Top.ord>>, t)
          /\ Return(Top, KValue(t, Top.a, Top.b))
    /\ UNCHANGED <<x, todo, status, gammaArgs>>

KStep ==
    \/ KLimitFirst
    \/ KLimitSecond
    \/ KLimitReturn
    \/ KDirectFirst
    \/ KDirectSecond
    \/ KDirectReturn

----------------------------------------------------------------------------
(* hankel_first(x, n), lines 414-422, and hankel_second(x, n), lines       *)
(* 439-447.                                                                *)

Hankels == {"hankel_first", "hankel_second"}

\* line 421: res_j + res_y with res_y = Complex::i() * y(x, n)
HankelFirstValue(a, b) == CAdd(a, CMul(CI, b))

\* the sum in place of the difference
HankelSecondPlus(a, b) == CAdd(a, CMul(CI, b))

\* line 446: res_j - res_y
HankelSecondValue(a, b) == CSub(a, CMul(CI, b))

\* lines 418 and 443: jf(x, n)
HankelCallJf(fn) ==
    /\ Running(fn, "call")
    /\ PushCall("wait_a", Call("jf", 0, Top.ord))
    /\ UNCHANGED <<x, todo, results, memo, gammaArgs>>

\* lines 419 and 444: y(x, n)
HankelCallY(fn) ==
    /\ Running(fn, "got_a")
    /\ PushCall("wait_b", Call("y", 0, Top.ord))
    /\ UNCHANGED <<x, todo, results, memo, gammaArgs>>

HankelFirstReturn ==
    /\ Running("hankel_first", "got_b")
    /\ Return(Top, HankelFirstValue(Top.a, Top.b))
    /\ UNCHANGED <<x, todo, status, memo, gammaArgs>>

HankelSecondReturn ==
    /\ Running("hankel_second", "got_b")
    /\ Return(Top, HankelSecondValue(Top.a, Top.b))
    /\ UNCHANGED <<x, todo, status, memo, gammaArgs>>

HankelStep ==
    \/ \E fn \in Hankels : HankelCallJf(fn)
    \/ \E fn \in Hankels : HankelCallY(fn)
    \/ HankelFirstReturn
    \/ HankelSecondReturn

----------------------------------------------------------------------------
(* The session.                                                            *)

\* the next call of the session starts
Invoke ==
    /\ status = "run"
    /\ stack = <<>>
    /\ todo # <<>>
    /\ stack' = <<Frame(Head(todo))>>
    /\ todo' = Tail(todo)
    /\ UNCHANGED <<x, results, status, memo, gammaArgs>>

\* 10^200
Huge == CFin(IMk(FALSE, MShift(<<1>>, 50)), IZero, <<1>>)

Args == {CInt(a, 0) : a \in 0..MaxArg} \cup {CInt(1, 1), Huge}

\* j(x, n) and then j(x, -n), as the doc test of j calls them
PairsJ ==
    {<<Call("j", n, OrdZero), Call("j", -n, OrdZero)>> :
        n \in 0..MaxOrder \cup {MaxI32}}

\* j at the low end of i32
EndsJ == {<<Call("j", MinI32, OrdZero)>>}

\* 3 * 10^9, a whole order beyond i32
Beyond == IMk(FALSE, <<0, 0, 30>>)

\* orders of the real-order functions: small whole ones, some with a
\* fraction, whole ones beyond i32 and whole ones from 2^44 on
Orders ==
    {OrdInt(n) : n \in -MaxOrder..MaxOrder}
    \cup {Ord(IInt(n), 500) : n \in -1..0}
    \cup {Ord(Beyond, 0), Ord(INeg(Beyond), 0)}
    \cup {Ord(IMk(FALSE, F64Whole), 0), Ord(IMk(TRUE, F64Whole), 0)}

\* one call of a real-order function
Singles ==
    {<<Call(fn, 0, o)>> : fn \in {"jf", "i", "y", "k"}, o \in Orders}

\* both Hankel functions, then jf and y, at one order
Quads ==
    {<<Call("hankel_first", 0, o), Call("hankel_second", 0, o),
       Call("jf", 0, o), Call("y", 0, o)>> : o \in {OrdInt(0), OrdInt(1), Ord(IZero, 500)}}

RealArgs == {CInt(1, 0)}

Init ==
    /\ \/ x \in Args /\ todo \in PairsJ \cup EndsJ
       \/ x \in RealArgs /\ todo \in Singles \cup Quads
    /\ stack = <<>>
    /\ results = <<>>
    /\ status = "run"
    /\ memo = <<>>
    /\ gammaArgs = {}

Next ==
    \/ Invoke
    \/ JStep
    \/ JfDelegate
    \/ JfDelegateReturn
    \/ JfSeries
    \/ ISeries
    \/ YStep
    \/ KStep
    \/ HankelStep

Spec == Init /\ [][Next]_vars

----------------------------------------------------------------------------
(* Properties.                                                             *)

\* the session is between two calls
Idle == stack = <<>>

Returned(fn) == {i \in DOMAIN results : results[i].fn = fn}

Abs(n) == IF n < 0 THEN -n ELSE n

\* a call of j is in its convergence loop
InLoop ==
    /\ stack # <<>>
    /\ Top.fn = "j"
    /\ Top.pc \in {"add", "test"}

\* (p + k)! as f64, for p up to i32::MAX
FactorialOfSum(p, k) ==
    IF p > 170 THEN RInf(FALSE) ELSE FactorialF64(p + k)

\* p + 2k; a power with an exponent beyond i32 is the power at i32::MAX,
\* zero or not finite
Exponent(p, k) == IF p > MaxI32 - 2 * k THEN MaxI32 ELSE p + 2 * k

\* the term of index k of the series of order p at xx:
\* (-1)^k (xx / 2)^(p + 2k) / (k! (p + k)!)
TermAt(xx, p, k) ==
    CDivR(RMulC(PowNeg1(k), CPowI(CDivR(xx, RInt(2)), Exponent(p, k))),
          RMul(FactorialF64(k), FactorialOfSum(p, k)))

RECURSIVE SumBelow(_, _, _)
\* the sum of the terms of index below k
SumBelow(xx, p, k) ==
    IF k = 0 THEN CZero ELSE CAdd(SumBelow(xx, p, k - 1), TermAt(xx, p, k - 1))

RECURSIVE Truncation(_, _, _, _)
\* the smallest index k from k0 on with |t_k / S_k| < 1e-8 and the sum S_k,
\* given s = S_(k0 - 1); K is -1 when there is none up to MaxIter
Truncation(xx, p, k0, s) ==
    LET t  == TermAt(xx, p, k0)
        s1 == CAdd(s, t)
    IN  IF ModulusLt(CDiv(t, s1), PRECISION_CONVERGENCE)
        THEN [K |-> k0, S |-> s1]
        ELSE IF k0 >= MaxIter THEN [K |-> -1, S |-> s1]
        ELSE Truncation(xx, p, k0 + 1, s1)

\* C1: for n >= 0, j(x, n) equals (-1)^n * j(x, -n): the two calls sum the
\* same series (the loop works on |n|), and the sign is applied to the
\* negative order only.
C1_Reflection ==
    Idle =>
        \A a, b \in Returned("j") :
            (results[a].n >= 0 /\ results[b].n = -results[a].n) =>
                /\ IsFin(results[a].val)
                /\ results[a].fr.res = results[b].fr.res
                /\ results[a].fr.added = results[b].fr.added
                /\ CEq(results[a].val,
                       RMulC(PowNeg1(results[a].n), results[b].val))

\* j(x, 1) and j(x, -1) have returned and are not zero
C1_Witness ==
    /\ Idle
    /\ \E a, b \in Returned("j") :
          /\ results[a].n = 1
          /\ results[b].n = -1
          /\ ~CIsZero(results[a].val)
          /\ ~CIsZero(results[b].val)

\* C2: at x = 0 every call of j returns: 1 for the order 0 (the terms of
\* index 0 and 1 are added), 0 for every other order (by the early exit).
C2_ZeroArgument ==
    CIsZero(x) =>
        /\ (stack # <<>> /\ stack[1].fn = "j") => status = "run"
        /\ \A a \in Returned("j") :
              IF results[a].n = 0
              THEN /\ CEq(results[a].val, COne)
                   /\ results[a].fr.added = <<0, 1>>
              ELSE /\ CIsZero(results[a].val)
                   /\ results[a].fr.added = <<>>

\* C3: a call of jf at an order with zero fraction, within i32 or not,
\* comes back with the value its call of j returned.
C3_IntegralOrder ==
    /\ (stack # <<>> /\ stack[1].fn = "jf" /\ IsWhole(stack[1].ord))
          => status = "run"
    /\ \A a \in Returned("jf") :
          IsWhole(results[a].ord) =>
              /\ Len(results[a].fr.kids) = 1
              /\ results[a].fr.kids[1].fn = "j"
              /\ results[a].val = results[a].fr.a

\* C4: a call of y (of k) made by y (by k) is at an order with a fraction:
\* it takes the direct branch, and the recursion is one level deep.
C4_DepthOne ==
    \A d \in 2..Len(stack) :
        (stack[d].fn \in {"y", "k"} /\ stack[d - 1].fn = stack[d].fn)
            => ~IsWhole(stack[d].ord)

C6_LoopTerminates == ~(InLoop /\ status = "hang")

\* C7: before res += term, with p = |n|: sg = (-1)^k, d1 = k!,
\* d2 = (p + k)!, term = sg (x/2)^(p + 2k) / (k! (p + k)!), and res is the
\* sum of the terms of index below k.
C7_LoopInvariant ==
    (stack # <<>> /\ Top.fn = "j" /\ Top.pc = "add") =>
        LET p == Abs(Top.n)
            k == Top.k
        IN  /\ Top.np = p
            /\ Top.sg = PowNeg1(k)
            /\ Top.d1 = FactorialF64(k)
            /\ Top.d2 = FactorialOfSum(p, k)
            /\ CEq(Top.term, TermAt(x, p, k))
            /\ CEq(Top.res, SumBelow(x, p, k))

\* C8: the value of j before the sign correction is 0 if |t_0| < 1e-8, and
\* otherwise the partial sum S_K for the smallest K with |t_K / S_K| < 1e-8;
\* the terms of index 0 .. K are added once each, in this order.
C8_Truncation ==
    Idle =>
        \A a \in Returned("j") :
            LET p == Abs(results[a].n)
                f == results[a].fr
            IN  IF ModulusLt(TermAt(x, p, 0), PRECISION_CONVERGENCE)
                THEN /\ CIsZero(f.res)
                     /\ f.added = <<>>
                ELSE LET t == Truncation(x, p, 0, CZero)
                     IN  /\ t.K >= 0
                         /\ CEq(f.res, t.S)
                         /\ f.added = [d \in 1..(t.K + 1) |-> d - 1]

\* a call of j has returned after six and more terms
C8_Witness ==
    /\ Idle
    /\ \E a \in Returned("j") : Len(results[a].fr.added) >= 6

\* C9: res is not zero when the stop test divides by it.
C9_ResNonZero ==
    (stack # <<>> /\ Top.fn = "j" /\ Top.pc = "test") => ~CIsZero(Top.res)

\* C10: no call of basic::gamma is at a whole argument n + 1 <= 0.
C10_GammaDomain ==
    \A g \in gammaArgs : ~(IsWhole(g) /\ (g.w.neg \/ g.w = IZero))

====
